---- MODULE Spec2Model ----
(***************************************************************************)
(* Task synchronization layer of the wecinema reporting dashboard:         *)
(* the module-level task cache and store client (firebase module) and the  *)
(* useRealtimeTasks hook (useDashboard.ts), over an abstract remote        *)
(* document store with ordered list queries, point writes, batched writes  *)
(* and snapshot listeners.                                                 *)
(***************************************************************************)
EXTENDS Integers, Sequences, FiniteSets, TLC

(* ------------------------------ bounds -------------------------------- *)

\* Number of seed records of the model (the source seeds 20).
NumSeed == 2
\* Budget of externally triggered events: mounts, unmounts, refresh clicks,
\* status or field edits, and clock advances.
MaxOps == 3
\* Budget of gate events: logins, logouts, page loads and clock advances.
MaxGateOps == 6
\* Budget of filter events: typing, choosing a status, clearing, a new task
\* list from the dashboard, and clock advances.
MaxFilterOps == 4
\* Budget of direct calls of the store client and clock advances.
MaxClientOps == 3
\* Budget of convertTimestamp calls and clock advances.
MaxConvertOps == 3

(* ----------------------------- constants ------------------------------ *)

CACHE_DURATION == 30000

TESTER_PASSWORD == "wecinema4464"
MAX_ATTEMPTS == 3
LOCKOUT_DURATION == 5 * 60 * 1000
\* The delay of the search debounce (setTimeout(.., 300) in useTaskFilter).
DEBOUNCE_DELAY == 300

\* Clock value at page load; Date.now() is far beyond one cache period.
Epoch == 2 * CACHE_DURATION

\* Amounts by which the clock advances between events: one cache period.
TickSteps == {CACHE_DURATION}

TaskStatus == {"completed", "in-progress", "pending", "blocked"}

\* Option values: None for null, Some(x) otherwise.
None == <<>>
Some(x) == <<x>>
IsSome(o) == o # <<>>
Val(o) == o[1]

\* Error messages of the hook; NoError is the null error state.
NoError == "null"
ErrInit == "Failed to initialize database"
ErrLoad == "Failed to load tasks"
ErrRefresh == "Failed to refresh tasks"

(* --------------------------- values and ids --------------------------- *)

FsTimestamp(ms) == [tag |-> "Timestamp", ms |-> ms]
JsDate(ms) == [tag |-> "Date", ms |-> ms]

\* String(index + 1).padStart(3, '0')
PadStart3(n) ==
  IF n < 10 THEN "00" \o ToString(n)
  ELSE IF n < 100 THEN "0" \o ToString(n)
  ELSE ToString(n)

SeedId(i) == "task_" \o PadStart3(i)

SeedIds == {SeedId(i) : i \in 1..NumSeed}

\* An id that no seeding ever creates.
UnknownId == "task_999"

Ids == SeedIds \cup {UnknownId}

\* Status of the i-th fixed record: six completed, one in progress, the
\* rest pending.
SeedStatus(i) ==
  IF i <= 6 THEN "completed" ELSE IF i = 7 THEN "in-progress" ELSE "pending"

\* Absent optional field.
Undefined == "undefined"

\* A missing document.
NoDoc == [exists |-> FALSE]

Doc(day, status, findings, ts) ==
  [exists |-> TRUE, day |-> day, status |-> status, findings |-> findings,
   lastUpdated |-> ts]

\* Values that are not dates: null, and a thrown TypeError.
JsNull == [tag |-> "null", ms |-> 0]
TypeError == [tag |-> "TypeError", ms |-> 0]

\* An object that is neither a store timestamp nor a date. toDate is
\* "absent", "function" or "value" (a member that is not callable); returns
\* is what calling the member yields.
JsObject(toDate, returns) ==
  [tag |-> "Object", toDate |-> toDate, returns |-> returns]

\* Values without members.
JsPrimitive(type) == [tag |-> type]

\* convertTimestamp: a store timestamp is converted, a date is returned as it
\* is, an object with a toDate member ('toDate' in timestamp) has that member
\* called, and anything else becomes "now".
convertTimestamp(t, nowMs) ==
  IF t.tag = "Timestamp" THEN JsDate(t.ms)
  ELSE IF t.tag = "Date" THEN t
  ELSE IF t.tag = "Object" /\ t.toDate # "absent"
       THEN IF t.toDate = "function" THEN t.returns ELSE TypeError
  ELSE JsDate(nowMs)

(* ------------------------------ state --------------------------------- *)

VARIABLES
  store,           \* remote collection: id -> document or NoDoc
  now,             \* the clock, in ms
  tasksCache,      \* module-level cache: None or Some(list of tasks)
  lastCacheTime,   \* module-level time of the last cache write
  tasks,           \* hook state: task list
  loading,         \* hook state: loading flag
  lastSync,        \* hook state: None or Some(ms)
  error,           \* hook state: NoError or a message
  unsubscribeRef,  \* hook ref: 0 for null, else the index of a listener
  aliased,         \* the hook's list is the very array held by the cache
  active,          \* the hook's effects are mounted
  runs,            \* number of effect runs so far
  calls,           \* asynchronous calls in flight, in order of issue
  subs,            \* snapshot listeners ever opened, in order of opening
  ops,             \* events spent of the budget
  last,            \* the step that led to the current state
  pre,             \* the values the hook and cache had before that step
  updatingTask,    \* DashboardMain state: None or Some(id)
  isAuthenticated, \* gate state
  attempts,        \* gate state: failed logins counted
  isLocked,        \* gate state
  authError,       \* gate state: the message shown, by kind
  sessionAuth,     \* sessionStorage holds 'true' under AUTH_STORAGE_KEY
  lockoutEnd,      \* localStorage lockout entry: None or Some(ms)
  lockoutTimer,    \* pending setIsLocked(false) timeout: None or Some(due ms)
  mountLocked,     \* the mount effect of this page load found a lockout
  gops,            \* gate events spent of the budget
  glast,           \* the gate step that led to the current state
  gpre,            \* the gate's values before that step
  filterInput,     \* useTaskFilter: the task list it is given
  filterStatus,    \* useTaskFilter state: 'all' or a status
  searchQuery,     \* useTaskFilter state: the text typed
  debouncedQuery,  \* useTaskFilter state: the text applied
  debounceTimer,   \* pending debounce timeout: None or Some(due ms)
  queryChangedAt,  \* time of the last change of searchQuery
  filteredTasks,   \* useTaskFilter: the memoized result
  fops,            \* filter events spent of the budget
  flast,           \* the filter step that led to the current state
  fpre,            \* the filter's values before that step
  convLast,        \* the last convertTimestamp call: input, result, time
  cvops            \* conversion events spent of the budget

\* The task hook, the store, the cache and the dashboard's own state.
taskVars == <<store, tasksCache, lastCacheTime, tasks, loading, lastSync,
              error, unsubscribeRef, aliased, active, runs, calls, subs, ops,
              last, pre, updatingTask>>

\* The access gate and the browser storage it uses.
gateVars == <<isAuthenticated, attempts, isLocked, authError, sessionAuth,
              lockoutEnd, lockoutTimer, mountLocked, gops, glast, gpre>>

\* The filter hook.
filterVars == <<filterInput, filterStatus, searchQuery, debouncedQuery,
                debounceTimer, queryChangedAt, filteredTasks, fops, flast,
                fpre>>

\* Calls of convertTimestamp.
convertVars == <<convLast, cvops>>

vars == <<now, taskVars, gateVars, filterVars, convertVars>>

(* --------------------------- remote store ----------------------------- *)

EmptyStore == [i \in Ids |-> NoDoc]

Min2(a, b) == IF a < b THEN a ELSE b

RECURSIVE OrderByDay(_, _)
\* The documents of st with ids in S, as <<id, data>> entries by day ascending.
OrderByDay(st, S) ==
  IF S = {} THEN <<>>
  ELSE LET first == CHOOSE i \in S : \A j \in S : st[i].day <= st[j].day
       IN <<[id |-> first, data |-> st[first]]>> \o OrderByDay(st, S \ {first})

\* query(collection, orderBy('day','asc')[, limit(n)]); limitCount 0 is "no limit".
ListQuery(st, limitCount) ==
  LET all == OrderByDay(st, {i \in Ids : st[i].exists})
  IN IF limitCount # 0 THEN SubSeq(all, 1, Min2(limitCount, Len(all))) ELSE all

\* snapshot.docs.map(doc => ({id: doc.id, ...data, lastUpdated: convertTimestamp(..)}))
MapDocs(docs, nowMs) ==
  [k \in 1..Len(docs) |->
     [id |-> docs[k].id, day |-> docs[k].data.day, status |-> docs[k].data.status,
      findings |-> docs[k].data.findings,
      lastUpdated |-> convertTimestamp(docs[k].data.lastUpdated, nowMs)]]

\* The batch of fixed records, all stamped with the same timestamp.
SeedStore(ts) ==
  [i \in Ids |->
     IF \E n \in 1..NumSeed : SeedId(n) = i
     THEN LET n == CHOOSE n \in 1..NumSeed : SeedId(n) = i
          IN Doc(n, SeedStatus(n), Undefined, FsTimestamp(ts))
     ELSE NoDoc]

\* Variant of the batch that holds the first fixed record only.
BatchSet_FirstOnly(st, ts) ==
  [i \in Ids |-> IF i = SeedId(1) THEN SeedStore(ts)[i] ELSE st[i]]

\* batch.set on every fixed id: replaces those documents, leaves others alone.
BatchSet(st, ts) ==
  [i \in Ids |-> IF i \in SeedIds THEN SeedStore(ts)[i] ELSE st[i]]

\* Fields of a document after merging the written fields into it.
MergeDoc(d, upd, ts) ==
  [exists |-> TRUE,
   day |-> IF d.exists THEN d.day ELSE 0,
   status |-> IF "status" \in DOMAIN upd THEN upd.status
              ELSE IF d.exists THEN d.status ELSE Undefined,
   findings |-> IF "findings" \in DOMAIN upd THEN upd.findings
                ELSE IF d.exists THEN d.findings ELSE Undefined,
   lastUpdated |-> FsTimestamp(ts)]

\* Variant of the write that always merge-creates (setDoc with merge).
RemoteWrite_Upsert(st, id, upd, ts, merge, netOk) ==
  IF ~netOk
  THEN [ok |-> FALSE, store |-> st]
  ELSE [ok |-> TRUE, store |-> [st EXCEPT ![id] = MergeDoc(st[id], upd, ts)]]

\* updateDoc (merge = TRUE): fails on a missing document.
\* setDoc(.., {merge: true}) (merge = FALSE): creates the document if missing.
\* netOk is whether the store accepted the request at all.
RemoteWrite(st, id, upd, ts, merge, netOk) ==
  IF ~netOk \/ (merge /\ ~st[id].exists)
  THEN [ok |-> FALSE, store |-> st]
  ELSE [ok |-> TRUE, store |-> [st EXCEPT ![id] = MergeDoc(st[id], upd, ts)]]

\* checkTasksExist: a failed probe is reported as "no tasks".
checkTasksExist(st, netOk) ==
  IF netOk THEN Len(ListQuery(st, 1)) # 0 ELSE FALSE

(* ------------------------------ cache --------------------------------- *)

\* Variant of the freshness test that still serves at exactly one period.
CacheFresh_Inclusive(useCache, cache, cacheTime, nowMs) ==
  useCache /\ IsSome(cache) /\ (nowMs - cacheTime) <= CACHE_DURATION

\* fetchTasks, before its first await: serve from the cache when fresh.
CacheFresh(useCache, cache, cacheTime, nowMs) ==
  useCache /\ IsSome(cache) /\ (nowMs - cacheTime) < CACHE_DURATION

SliceLimit(list, limitCount) ==
  IF limitCount # 0 THEN SubSeq(list, 1, Min2(limitCount, Len(list))) ELSE list

\* Variant of the catch branch that always throws.
FetchOnError_NoFallback(cache) ==
  [outcome |-> "rejected", result |-> <<>>]

\* fetchTasks, catch branch: the stale cache if there is one, else throw.
FetchOnError(cache) ==
  IF IsSome(cache)
  THEN [outcome |-> "resolved", result |-> Val(cache)]
  ELSE [outcome |-> "rejected", result |-> <<>>]

\* Variant of fetchTasks that returns the queried list without caching it.
FetchSettled_NoCacheWrite(resp, cache, cacheTime, nowMs) ==
  IF resp.type = "cached"
  THEN [outcome |-> "resolved", result |-> resp.list,
        cache |-> cache, cacheTime |-> cacheTime]
  ELSE IF resp.type = "ok"
  THEN [outcome |-> "resolved", result |-> MapDocs(resp.list, nowMs),
        cache |-> cache, cacheTime |-> cacheTime]
  ELSE [outcome |-> FetchOnError(cache).outcome,
        result |-> FetchOnError(cache).result,
        cache |-> cache, cacheTime |-> cacheTime]

\* fetchTasks after the query settled: what it returns and what it leaves in
\* the cache.
FetchSettled(resp, cache, cacheTime, nowMs) ==
  IF resp.type = "cached"
  THEN [outcome |-> "resolved", result |-> resp.list,
        cache |-> cache, cacheTime |-> cacheTime]
  ELSE IF resp.type = "ok"
  THEN LET got == MapDocs(resp.list, nowMs)
       IN [outcome |-> "resolved", result |-> got,
           cache |-> Some(got), cacheTime |-> nowMs]
  ELSE [outcome |-> FetchOnError(cache).outcome,
        result |-> FetchOnError(cache).result,
        cache |-> cache, cacheTime |-> cacheTime]

\* {...task, ...updates, lastUpdated: new Date()}
PatchTask(t, upd, nowMs) ==
  [id |-> t.id, day |-> t.day,
   status |-> IF "status" \in DOMAIN upd THEN upd.status ELSE t.status,
   findings |-> IF "findings" \in DOMAIN upd THEN upd.findings ELSE t.findings,
   lastUpdated |-> JsDate(nowMs)]

\* findIndex(t => t.id === taskId), 0 for -1.
FindIndex(list, id) ==
  IF \E k \in 1..Len(list) : list[k].id = id
  THEN CHOOSE k \in 1..Len(list) :
         list[k].id = id /\ \A j \in 1..(k - 1) : list[j].id # id
  ELSE 0

\* Variant of the cache update that adds an entry for an id it lacks.
PatchList_Upsert(list, id, upd, nowMs) ==
  IF FindIndex(list, id) # 0
  THEN [list EXCEPT ![FindIndex(list, id)] = PatchTask(list[FindIndex(list, id)], upd, nowMs)]
  ELSE Append(list, PatchTask([id |-> id, day |-> 0, status |-> Undefined,
                               findings |-> Undefined], upd, nowMs))

\* The in-place cache update of updateTaskStatus and updateTask.
PatchList(list, id, upd, nowMs) ==
  IF FindIndex(list, id) # 0
  THEN [list EXCEPT ![FindIndex(list, id)] = PatchTask(list[FindIndex(list, id)], upd, nowMs)]
  ELSE list

PatchCache(cache, id, upd, nowMs) ==
  IF IsSome(cache) THEN Some(PatchList(Val(cache), id, upd, nowMs)) ELSE cache

\* updateTaskStatus / updateTask after the awaited write settled: the cache
\* they leave and whether they throw.
MutationSettled(writeOk, cache, id, upd, nowMs) ==
  IF writeOk
  THEN [outcome |-> "resolved", cache |-> PatchCache(cache, id, upd, nowMs)]
  ELSE [outcome |-> "rejected", cache |-> cache]

\* getTaskById: null for a missing document, else its fields with the id
\* and a converted lastUpdated; a failed read is rethrown.
getTaskById(st, id, nowMs, netOk) ==
  IF ~netOk THEN [outcome |-> "rejected", result |-> None]
  ELSE IF ~st[id].exists THEN [outcome |-> "resolved", result |-> None]
  ELSE [outcome |-> "resolved",
        result |-> Some([id |-> id, day |-> st[id].day,
                         status |-> st[id].status,
                         findings |-> st[id].findings,
                         lastUpdated |-> convertTimestamp(st[id].lastUpdated,
                                                          nowMs)])]

\* deleteDoc: removes the document; a missing one is not an error.
RemoteDelete(st, id, netOk) ==
  IF netOk THEN [ok |-> TRUE, store |-> [st EXCEPT ![id] = NoDoc]]
  ELSE [ok |-> FALSE, store |-> st]

\* Variant of deleteTask's cache step that drops the whole cache.
DeleteFromCache_Invalidate(cache, id) == None

\* tasksCache?.filter(t => t.id !== taskId) || null
DeleteFromCache(cache, id) ==
  IF IsSome(cache)
  THEN LET Keep(t) == t.id # id IN Some(SelectSeq(Val(cache), Keep))
  ELSE None

\* deleteTask after the awaited delete settled.
DeleteSettled(deleteOk, cache, id) ==
  IF deleteOk
  THEN [outcome |-> "resolved", cache |-> DeleteFromCache(cache, id)]
  ELSE [outcome |-> "rejected", cache |-> cache]

\* Variant of the hook's wrapper that logs the failure and returns.
HookMutationOutcome_Swallow(clientOutcome) == "resolved"

\* The hook's updateStatus / updateTask: rethrow what the store client threw.
HookMutationOutcome(clientOutcome) ==
  IF clientOutcome = "rejected" THEN "rejected" ELSE "resolved"

(* ------------------------- bookkeeping values ------------------------- *)

Pending == [type |-> "pending", list |-> <<>>]

Call(kind, run, op, id, upd, ts, resp) ==
  [kind |-> kind, run |-> run, op |-> op, id |-> id, upd |-> upd, ts |-> ts,
   resp |-> resp]

NoUpd == [none |-> TRUE]

Step(kind, op, id, upd, query, outcome, result) ==
  [kind |-> kind, op |-> op, id |-> id, upd |-> upd, query |-> query,
   outcome |-> outcome, result |-> result, run |-> 0]

\* A step taken by code of effect run r.
StepOf(r, step) == [step EXCEPT !.run = r]

\* The values before a step, kept for stating what the step changed.
Before ==
  [store |-> store, tasksCache |-> tasksCache, subs |-> subs,
   lastCacheTime |-> lastCacheTime]

RemoveAt(seq, i) == SubSeq(seq, 1, i - 1) \o SubSeq(seq, i + 1, Len(seq))

\* No continuation of an already resolved promise is waiting to run.
Quiet == \A i \in 1..Len(calls) : calls[i].resp.type # "cached"

\* The `mounted` flag of effect run r.
Mounted(r) == active /\ r = runs

\* Variant of init()'s catch that only logs.
InitCatch_LogOnly(mounted, err) == err

\* init()'s catch: the error is set only while that run is still mounted.
InitCatch(mounted, err) == IF mounted THEN ErrInit ELSE err

\* The hook subscribes with a data callback only, so the error branch of the
\* listener (onError?.(error)) calls nothing and the error state stays.
SubscriptionErrorSeen(err) == err

Listener(r, first) == [live |-> TRUE, queue |-> <<first>>, unsubCalls |-> 0, run |-> r]

\* Every live listener is sent the new ordered snapshot.
Notify(ss, st) ==
  [k \in 1..Len(ss) |->
     IF ss[k].live THEN [ss[k] EXCEPT !.queue = Append(@, ListQuery(st, 0))]
     ELSE ss[k]]

\* The unsubscribe handle of listener k.
Unsubscribe(ss, k) ==
  [ss EXCEPT ![k] = [@ EXCEPT !.live = FALSE, !.queue = <<>>,
                                !.unsubCalls = @ + 1]]

\* fetchTasks() as the hook calls it (no options), up to its first await.
FetchCall(r, op) ==
  Call("fetch", r, op, "", NoUpd, now,
       IF CacheFresh(TRUE, tasksCache, lastCacheTime, now)
       THEN [type |-> "cached", list |-> SliceLimit(Val(tasksCache), 0)]
       ELSE Pending)

(* ----------------------------- access gate --------------------------- *)

\* Passwords typed into the login form: the right one and a wrong one.
Candidates == {TESTER_PASSWORD, "wecinema"}

\* Amounts by which the clock advances between gate events.
GateTickSteps == {LOCKOUT_DURATION \div 2, LOCKOUT_DURATION}

NoAuthError == ""
ErrLockedOut == "Account temporarily locked. Please try again later."
ErrTooMany == "Too many failed attempts. Account locked for 5 minutes."
\* `Invalid password. ${remaining} attempt${remaining !== 1 ? 's' : ''} remaining.`
ErrInvalid(remaining) ==
  IF remaining = 1 THEN "Invalid password. 1 attempt remaining."
  ELSE "Invalid password. " \o ToString(remaining) \o " attempts remaining."

RECURSIVE DecString(_)
\* Number.prototype.toString() of a natural number: its decimal digits.
DecString(n) ==
  IF n < 10 THEN <<n>> ELSE Append(DecString(n \div 10), n % 10)

RECURSIVE ParseDigits(_, _)
ParseDigits(digits, acc) ==
  IF digits = <<>> THEN acc
  ELSE ParseDigits(Tail(digits), 10 * acc + Head(digits))

\* parseInt of a string of decimal digits.
parseInt(digits) == ParseDigits(digits, 0)

\* The gate's state and the storage entries it reads, as one record.
Gate ==
  [isAuthenticated |-> isAuthenticated, attempts |-> attempts,
   isLocked |-> isLocked, error |-> authError, sessionAuth |-> sessionAuth,
   lockoutEnd |-> lockoutEnd, lockoutTimer |-> lockoutTimer]

\* The state of useTesterAuth after its useState initializers, over the
\* given storage contents.
FreshGate(session, lockout) ==
  [isAuthenticated |-> FALSE, attempts |-> 0, isLocked |-> FALSE,
   error |-> NoAuthError, sessionAuth |-> session, lockoutEnd |-> lockout,
   lockoutTimer |-> None]

\* Variant of the mount effect that does not look at the stored lockout.
MountEffect_NoLockout(g, nowMs) ==
  IF g.sessionAuth THEN [g EXCEPT !.isAuthenticated = TRUE] ELSE g

\* The mount effect: an unexpired stored lockout locks the gate and arms the
\* unlock timer for the remaining time; otherwise a stored session
\* authenticates.
MountEffect(g, nowMs) ==
  IF IsSome(g.lockoutEnd) /\ nowMs < parseInt(Val(g.lockoutEnd))
  THEN [g EXCEPT !.isLocked = TRUE,
                 !.lockoutTimer = Some(nowMs + (parseInt(Val(g.lockoutEnd)) - nowMs))]
  ELSE IF g.sessionAuth THEN [g EXCEPT !.isAuthenticated = TRUE] ELSE g

\* Variant of login's first test that never refuses.
LoginBlocked_Never(locked) == FALSE

\* login's first test: a locked gate refuses every password.
LoginBlocked(locked) == locked

\* Variant of the lock test that locks one failure later.
LockNeeded_Late(newAttempts) == newAttempts > MAX_ATTEMPTS

\* The lock test of the setAttempts updater.
LockNeeded(newAttempts) == newAttempts >= MAX_ATTEMPTS

\* Variant of the updater that locks without arming the unlock timeout.
LoginFailure_NoTimer(g, nowMs) ==
  LET newAttempts == g.attempts + 1
      remaining == MAX_ATTEMPTS - newAttempts
  IN IF LockNeeded(newAttempts)
     THEN [g EXCEPT !.attempts = newAttempts,
                    !.error = ErrTooMany,
                    !.isLocked = TRUE,
                    !.lockoutEnd = Some(DecString(nowMs + LOCKOUT_DURATION))]
     ELSE [g EXCEPT !.attempts = newAttempts, !.error = ErrInvalid(remaining)]

\* The setAttempts updater of a wrong password.
LoginFailure(g, nowMs) ==
  LET newAttempts == g.attempts + 1
      remaining == MAX_ATTEMPTS - newAttempts
  IN IF LockNeeded(newAttempts)
     THEN [g EXCEPT !.attempts = newAttempts,
                    !.error = ErrTooMany,
                    !.isLocked = TRUE,
                    !.lockoutEnd = Some(DecString(nowMs + LOCKOUT_DURATION)),
                    !.lockoutTimer = Some(nowMs + LOCKOUT_DURATION)]
     ELSE [g EXCEPT !.attempts = newAttempts, !.error = ErrInvalid(remaining)]

\* Variant of the success branch that leaves the stored lockout in place.
LoginSuccess_KeepLockout(g) ==
  [g EXCEPT !.isAuthenticated = TRUE, !.error = NoAuthError, !.attempts = 0,
            !.sessionAuth = TRUE]

\* The success branch of login.
LoginSuccess(g) ==
  [g EXCEPT !.isAuthenticated = TRUE, !.error = NoAuthError, !.attempts = 0,
            !.sessionAuth = TRUE, !.lockoutEnd = None]

\* login(inputPassword): the gate afterwards and the value returned.
login(g, inputPassword, nowMs) ==
  IF LoginBlocked(g.isLocked)
  THEN [gate |-> [g EXCEPT !.error = ErrLockedOut], result |-> FALSE]
  ELSE IF inputPassword # TESTER_PASSWORD
       THEN [gate |-> LoginFailure(g, nowMs), result |-> FALSE]
       ELSE [gate |-> LoginSuccess(g), result |-> TRUE]

\* logout(): storage keeps the lockout entry, and isLocked is not touched.
logout(g) ==
  [g EXCEPT !.isAuthenticated = FALSE, !.error = NoAuthError, !.attempts = 0,
            !.sessionAuth = FALSE]

\* The gate's variables take the values of record g.
SetGate(g) ==
  /\ isAuthenticated' = g.isAuthenticated
  /\ attempts' = g.attempts
  /\ isLocked' = g.isLocked
  /\ authError' = g.error
  /\ sessionAuth' = g.sessionAuth
  /\ lockoutEnd' = g.lockoutEnd
  /\ lockoutTimer' = g.lockoutTimer

GateStep(kind, input, result) ==
  [kind |-> kind, input |-> input, result |-> result]

GateBefore == [gate |-> Gate, now |-> now]

\* First page load, with empty session and local storage.
GateInit ==
  LET g == MountEffect(FreshGate(FALSE, None), Epoch)
  IN /\ isAuthenticated = g.isAuthenticated
     /\ attempts = g.attempts
     /\ isLocked = g.isLocked
     /\ authError = g.error
     /\ sessionAuth = g.sessionAuth
     /\ lockoutEnd = g.lockoutEnd
     /\ lockoutTimer = g.lockoutTimer
     /\ mountLocked = g.isLocked
     /\ gops = 0
     /\ glast = GateStep("none", "", FALSE)
     /\ gpre = [gate |-> g, now |-> Epoch]

\* The login form is submitted with inputPassword.
Login(inputPassword) ==
  /\ UNCHANGED filterVars
  /\ UNCHANGED convertVars
  /\ gops < MaxGateOps
  /\ gops' = gops + 1
  /\ LET r == login(Gate, inputPassword, now)
     IN /\ SetGate(r.gate)
        /\ glast' = GateStep("login", inputPassword, r.result)
  /\ gpre' = GateBefore
  /\ UNCHANGED <<now, taskVars, mountLocked>>

Logout ==
  /\ UNCHANGED filterVars
  /\ UNCHANGED convertVars
  /\ gops < MaxGateOps
  /\ gops' = gops + 1
  /\ SetGate(logout(Gate))
  /\ glast' = GateStep("logout", "", FALSE)
  /\ gpre' = GateBefore
  /\ UNCHANGED <<now, taskVars, mountLocked>>

\* The page is loaded again: component state and timers are gone, local
\* storage stays, session storage stays in the same tab; then the mount
\* effect runs.
Reload(sameTab) ==
  /\ UNCHANGED filterVars
  /\ UNCHANGED convertVars
  /\ gops < MaxGateOps
  /\ gops' = gops + 1
  /\ LET g == MountEffect(FreshGate(sameTab /\ sessionAuth, lockoutEnd), now)
     IN /\ SetGate(g)
        /\ mountLocked' = g.isLocked
  /\ glast' = GateStep("reload", "", FALSE)
  /\ gpre' = GateBefore
  /\ UNCHANGED <<now, taskVars>>

\* The unlock timeout fires, at its due time or later.
LockoutExpire ==
  /\ UNCHANGED filterVars
  /\ UNCHANGED convertVars
  /\ IsSome(lockoutTimer)
  /\ now >= Val(lockoutTimer)
  /\ isLocked' = FALSE
  /\ lockoutTimer' = None
  /\ glast' = GateStep("expire", "", FALSE)
  /\ gpre' = GateBefore
  /\ UNCHANGED <<now, taskVars, isAuthenticated, attempts, authError,
                 sessionAuth, lockoutEnd, mountLocked, gops>>

\* Time passes at the gate.
GateTick(d) ==
  /\ UNCHANGED filterVars
  /\ UNCHANGED convertVars
  /\ gops < MaxGateOps
  /\ gops' = gops + 1
  /\ now' = now + d
  /\ glast' = GateStep("tick", "", FALSE)
  /\ gpre' = GateBefore
  /\ UNCHANGED <<taskVars, isAuthenticated, attempts, isLocked, authError,
                 sessionAuth, lockoutEnd, lockoutTimer, mountLocked>>

\* Time passes until the pending unlock timeout is due.
LockoutWait ==
  /\ UNCHANGED filterVars
  /\ UNCHANGED convertVars
  /\ IsSome(lockoutTimer)
  /\ now < Val(lockoutTimer)
  /\ now' = Val(lockoutTimer)
  /\ glast' = GateStep("wait", "", FALSE)
  /\ gpre' = GateBefore
  /\ UNCHANGED <<taskVars, isAuthenticated, attempts, isLocked, authError,
                 sessionAuth, lockoutEnd, lockoutTimer, mountLocked, gops>>

(* ------------------------------ filter -------------------------------- *)

\* Text is a sequence of characters over a small alphabet with two letters
\* in both cases and the blank.
LowerChar(c) == IF c = "A" THEN "a" ELSE IF c = "B" THEN "b" ELSE c

\* String.prototype.toLowerCase
toLowerCase(str) == [k \in 1..Len(str) |-> LowerChar(str[k])]

RECURSIVE TrimStart(_)
TrimStart(str) ==
  IF str # <<>> /\ Head(str) = " " THEN TrimStart(Tail(str)) ELSE str

RECURSIVE TrimEnd(_)
TrimEnd(str) ==
  IF str # <<>> /\ str[Len(str)] = " "
  THEN TrimEnd(SubSeq(str, 1, Len(str) - 1))
  ELSE str

\* String.prototype.trim
trim(str) == TrimEnd(TrimStart(str))

\* String.prototype.includes
includes(str, sub) ==
  \E k \in 0..(Len(str) - Len(sub)) : SubSeq(str, k + 1, k + Len(sub)) = sub

FilterTask(id, status, title, module, tags) ==
  [id |-> id, status |-> status, title |-> title, module |-> module,
   tags |-> tags]

\* Sample tasks: matches by title only, by module only, by a tag only, in
\* mixed case, and none "blocked".
SampleTask1 == FilterTask("task_001", "completed", <<"A", "b">>, <<"b">>, <<>>)
SampleTask2 ==
  FilterTask("task_002", "pending", <<"b">>, <<"B", "a">>, <<<<"a", " ", "B">>>>)
SampleTask3 ==
  FilterTask("task_003", "pending", <<"b", "b">>, <<"b">>, <<<<"b">>, <<"A">>>>)

\* Task lists the dashboard hands to the filter.
FilterInputs ==
  {<<SampleTask1, SampleTask2, SampleTask3>>,
   <<SampleTask3, SampleTask1, SampleTask3>>,
   <<SampleTask2>>}

\* Texts typed into the search box.
Queries ==
  {<<" ">>, <<"A", " ">>, <<" ", "a", "b">>, <<"b", "a">>, <<"a", " ", "b">>,
   <<"B", "B", "B">>}

\* Values of the status selector.
FilterStatuses == {"all", "pending", "blocked", "completed"}

\* Clock advances between filter events.
FilterTickSteps == {100, DEBOUNCE_DELAY}

\* Variant of the filter callback that searches the title only.
TaskMatches_TitleOnly(task, status, query) ==
  LET matchesStatus == status = "all" \/ task.status = status
  IN IF query = <<>> THEN matchesStatus
     ELSE matchesStatus /\ includes(toLowerCase(task.title), query)

\* The callback of tasks.filter in filteredTasks.
TaskMatches(task, status, query) ==
  LET matchesStatus == status = "all" \/ task.status = status
      searchLower == query
      matchesSearch ==
        \/ includes(toLowerCase(task.title), searchLower)
        \/ includes(toLowerCase(task.module), searchLower)
        \/ \E t \in 1..Len(task.tags) :
             includes(toLowerCase(task.tags[t]), searchLower)
  IN IF query = <<>> THEN matchesStatus
     ELSE matchesStatus /\ matchesSearch

RECURSIVE ArrayFilter(_, _, _)
\* Array.prototype.filter with the callback above, front to back.
ArrayFilter(list, status, query) ==
  IF list = <<>> THEN <<>>
  ELSE (IF TaskMatches(Head(list), status, query) THEN <<Head(list)>> ELSE <<>>)
         \o ArrayFilter(Tail(list), status, query)

\* The body of the filteredTasks memo.
ComputeFiltered(list, status, query) ==
  IF query = <<>> /\ status = "all" THEN list
  ELSE ArrayFilter(list, status, query)

\* useMemo(.., [tasks, filterStatus, debouncedQuery]): recomputed when a
\* dependency changed, else the previous value.
Memo(oldDeps, newDeps, value) ==
  IF oldDeps # newDeps
  THEN ComputeFiltered(newDeps[1], newDeps[2], newDeps[3])
  ELSE value

\* Variant of the debounce effect without its cleanup: a pending timeout is
\* left to fire.
RestartDebounce_KeepFirst(timer, nowMs) ==
  IF IsSome(timer) THEN timer ELSE Some(nowMs + DEBOUNCE_DELAY)

\* The debounce effect re-run: the cleanup clears the pending timeout and a
\* new one is set.
RestartDebounce(timer, nowMs) == Some(nowMs + DEBOUNCE_DELAY)

FilterStep(kind) == [kind |-> kind]

FilterBefore ==
  [filterStatus |-> filterStatus, searchQuery |-> searchQuery,
   debouncedQuery |-> debouncedQuery, filteredTasks |-> filteredTasks]

FilterDeps == <<filterInput, filterStatus, debouncedQuery>>

\* useTaskFilter after its first render and effects: the debounce effect has
\* set its first timeout.
FilterInit ==
  /\ filterInput = <<>>
  /\ filterStatus = "all"
  /\ searchQuery = <<>>
  /\ debouncedQuery = <<>>
  /\ debounceTimer = Some(Epoch + DEBOUNCE_DELAY)
  /\ queryChangedAt = Epoch
  /\ filteredTasks = <<>>
  /\ fops = 0
  /\ flast = FilterStep("none")
  /\ fpre = [filterStatus |-> "all", searchQuery |-> <<>>,
             debouncedQuery |-> <<>>, filteredTasks |-> <<>>]

\* The dashboard renders with another task list.
TasksChange(list) ==
  /\ fops < MaxFilterOps
  /\ fops' = fops + 1
  /\ list # filterInput
  /\ filterInput' = list
  /\ filteredTasks' = Memo(FilterDeps, <<list, filterStatus, debouncedQuery>>,
                           filteredTasks)
  /\ flast' = FilterStep("tasks")
  /\ fpre' = FilterBefore
  /\ UNCHANGED <<now, taskVars, gateVars, convertVars, filterStatus, searchQuery,
                 debouncedQuery, debounceTimer, queryChangedAt>>

\* setSearchQuery(q) with another text: the debounce effect runs again.
SetSearchQuery(q) ==
  /\ fops < MaxFilterOps
  /\ fops' = fops + 1
  /\ q # searchQuery
  /\ searchQuery' = q
  /\ debounceTimer' = RestartDebounce(debounceTimer, now)
  /\ queryChangedAt' = now
  /\ flast' = FilterStep("query")
  /\ fpre' = FilterBefore
  /\ UNCHANGED <<now, taskVars, gateVars, convertVars, filterInput, filterStatus,
                 debouncedQuery, filteredTasks>>

\* setFilterStatus(status).
SetFilterStatus(status) ==
  /\ fops < MaxFilterOps
  /\ fops' = fops + 1
  /\ status # filterStatus
  /\ filterStatus' = status
  /\ filteredTasks' = Memo(FilterDeps, <<filterInput, status, debouncedQuery>>,
                           filteredTasks)
  /\ flast' = FilterStep("status")
  /\ fpre' = FilterBefore
  /\ UNCHANGED <<now, taskVars, gateVars, convertVars, filterInput, searchQuery,
                 debouncedQuery, debounceTimer, queryChangedAt>>

\* clearFilters(): the status is reset at once, the text through the debounce.
ClearFilters ==
  /\ fops < MaxFilterOps
  /\ fops' = fops + 1
  /\ filterStatus' = "all"
  /\ searchQuery' = <<>>
  /\ IF searchQuery # <<>>
     THEN /\ debounceTimer' = RestartDebounce(debounceTimer, now)
          /\ queryChangedAt' = now
     ELSE UNCHANGED <<debounceTimer, queryChangedAt>>
  /\ filteredTasks' = Memo(FilterDeps, <<filterInput, "all", debouncedQuery>>,
                           filteredTasks)
  /\ flast' = FilterStep("clear")
  /\ fpre' = FilterBefore
  /\ UNCHANGED <<now, taskVars, gateVars, convertVars, filterInput, debouncedQuery>>

\* The debounce timeout fires, at its due time or later.
DebounceFire ==
  /\ IsSome(debounceTimer)
  /\ now >= Val(debounceTimer)
  /\ debouncedQuery' = trim(toLowerCase(searchQuery))
  /\ debounceTimer' = None
  /\ filteredTasks' = Memo(FilterDeps,
                           <<filterInput, filterStatus,
                             trim(toLowerCase(searchQuery))>>,
                           filteredTasks)
  /\ flast' = FilterStep("debounce")
  /\ fpre' = FilterBefore
  /\ UNCHANGED <<now, taskVars, gateVars, convertVars, filterInput, filterStatus,
                 searchQuery, queryChangedAt, fops>>

\* Time passes at the filter.
FilterTick(d) ==
  /\ fops < MaxFilterOps
  /\ fops' = fops + 1
  /\ now' = now + d
  /\ flast' = FilterStep("tick")
  /\ fpre' = FilterBefore
  /\ UNCHANGED <<taskVars, gateVars, convertVars, filterInput, filterStatus, searchQuery,
                 debouncedQuery, debounceTimer, queryChangedAt, filteredTasks>>

(* ------------------------- timestamp conversion ----------------------- *)

\* Values handed to convertTimestamp: store timestamps, dates, objects with
\* a toDate function (returning a date or null), with a toDate member that is
\* not a function, or without one, and null, undefined, a number, a string.
ConvertInputs ==
  {FsTimestamp(ms) : ms \in {0, Epoch}}
    \cup {JsDate(ms) : ms \in {0, Epoch}}
    \cup {JsObject("function", JsDate(ms)) : ms \in {0, Epoch}}
    \cup {JsObject("function", JsNull), JsObject("value", JsNull),
          JsObject("absent", JsNull)}
    \cup {JsPrimitive(type) : type \in {"null", "undefined", "number", "string"}}

ConvertInit ==
  /\ convLast = [kind |-> "none", input |-> JsPrimitive("undefined"),
                 result |-> JsNull, at |-> Epoch]
  /\ cvops = 0

\* convertTimestamp(input) is called.
Convert(input) ==
  /\ cvops < MaxConvertOps
  /\ cvops' = cvops + 1
  /\ convLast' = [kind |-> "convert", input |-> input,
                  result |-> convertTimestamp(input, now), at |-> now]
  /\ UNCHANGED <<now, taskVars, gateVars, filterVars>>

\* Time passes between conversions.
ConvertTick ==
  /\ cvops < MaxConvertOps
  /\ cvops' = cvops + 1
  /\ now' = now + 1
  /\ UNCHANGED <<convLast, taskVars, gateVars, filterVars>>

(* ------------------------------ actions ------------------------------- *)

Init ==
  /\ store \in {EmptyStore, SeedStore(0)}
  /\ now = Epoch
  /\ tasksCache = None
  /\ lastCacheTime = 0
  /\ tasks = <<>>
  /\ loading = TRUE
  /\ lastSync = None
  /\ error = NoError
  /\ unsubscribeRef = 0
  /\ aliased = FALSE
  /\ active = FALSE
  /\ runs = 0
  /\ calls = <<>>
  /\ subs = <<>>
  /\ ops = 0
  /\ last = Step("none", "", "", NoUpd, "none", "none", <<>>)
  /\ pre = [store |-> store, tasksCache |-> None, subs |-> <<>>,
            lastCacheTime |-> 0]
  /\ updatingTask = None
  /\ GateInit
  /\ FilterInit
  /\ ConvertInit

\* Both effects of useRealtimeTasks run: init() probes the store, and the
\* subscription effect resets loading and error and starts the initial fetch.
Activate ==
  /\ UNCHANGED gateVars
  /\ UNCHANGED filterVars
  /\ UNCHANGED convertVars
  /\ UNCHANGED updatingTask
  /\ ~active
  /\ ops < MaxOps
  /\ active' = TRUE
  /\ runs' = runs + 1
  /\ ops' = ops + 1
  /\ loading' = TRUE
  /\ error' = NoError
  /\ calls' = calls \o <<Call("probe", runs + 1, "init", "", NoUpd, now, Pending),
                         FetchCall(runs + 1, "initial")>>
  /\ last' = Step("activate", "", "", NoUpd, "none", "none", <<>>)
  /\ pre' = Before
  /\ UNCHANGED <<store, now, tasksCache, lastCacheTime, tasks, lastSync,
                 unsubscribeRef, aliased, subs>>

\* Both cleanups run: mounted = false, and the listener held by the ref, if
\* any, is unsubscribed and the ref cleared.
Deactivate ==
  /\ UNCHANGED gateVars
  /\ UNCHANGED filterVars
  /\ UNCHANGED convertVars
  /\ UNCHANGED updatingTask
  /\ active
  /\ ops < MaxOps
  /\ ops' = ops + 1
  /\ active' = FALSE
  /\ IF unsubscribeRef # 0
     THEN /\ subs' = Unsubscribe(subs, unsubscribeRef)
          /\ unsubscribeRef' = 0
     ELSE UNCHANGED <<subs, unsubscribeRef>>
  /\ last' = Step("deactivate", "", "", NoUpd, "none", "none", <<>>)
  /\ pre' = Before
  /\ UNCHANGED <<store, now, tasksCache, lastCacheTime, tasks, loading,
                 lastSync, error, aliased, runs, calls>>

\* refresh(): setLoading(true), then fetchTasks() up to its first await.
Refresh ==
  /\ UNCHANGED gateVars
  /\ UNCHANGED filterVars
  /\ UNCHANGED convertVars
  /\ UNCHANGED updatingTask
  /\ active
  /\ Quiet
  /\ ops < MaxOps
  /\ ops' = ops + 1
  /\ loading' = TRUE
  /\ calls' = Append(calls, FetchCall(runs, "refresh"))
  /\ last' = Step("call", "refresh", "", NoUpd,
                  IF FetchCall(runs, "refresh").resp.type = "cached"
                  THEN "none" ELSE "issued",
                  "none", <<>>)
  /\ pre' = Before
  /\ UNCHANGED <<store, now, tasksCache, lastCacheTime, tasks, lastSync,
                 error, unsubscribeRef, aliased, active, runs, subs>>

\* The store answers a list query with its current ordered contents, or fails.
FetchServe(i) ==
  /\ UNCHANGED gateVars
  /\ UNCHANGED filterVars
  /\ UNCHANGED convertVars
  /\ UNCHANGED updatingTask
  /\ Quiet
  /\ calls[i].kind = "fetch"
  /\ calls[i].resp.type = "pending"
  /\ \E netOk \in BOOLEAN :
       calls' = [calls EXCEPT ![i].resp =
                   IF netOk THEN [type |-> "ok", list |-> ListQuery(store, 0)]
                   ELSE [type |-> "err", list |-> <<>>]]
  /\ last' = Step("serve", calls[i].op, "", NoUpd, "none", "none", <<>>)
  /\ pre' = Before
  /\ UNCHANGED <<store, now, tasksCache, lastCacheTime, tasks, loading,
                 lastSync, error, unsubscribeRef, aliased, active, runs, subs,
                 ops>>

\* setupSubscription after `await fetchTasks()`: on a result, publish it and
\* open the listener; on a throw, set the error. Both end loading.
SetupContinuation(c, r) ==
  IF r.outcome = "resolved"
  THEN /\ tasks' = r.result
       /\ lastSync' = Some(now)
       /\ loading' = FALSE
       /\ subs' = Append(subs, Listener(c.run, ListQuery(store, 0)))
       /\ unsubscribeRef' = Len(subs) + 1
       /\ aliased' = IsSome(r.cache)
       /\ UNCHANGED error
  ELSE /\ error' = ErrLoad
       /\ loading' = FALSE
       /\ UNCHANGED <<tasks, lastSync, subs, unsubscribeRef, aliased>>

\* refresh after `await fetchTasks()`: publish the result or set the error;
\* finally end loading.
RefreshContinuation(r) ==
  /\ IF r.outcome = "resolved"
     THEN /\ tasks' = r.result
          /\ lastSync' = Some(now)
          /\ aliased' = IsSome(r.cache)
          /\ UNCHANGED error
     ELSE /\ error' = ErrRefresh
          /\ UNCHANGED <<tasks, lastSync, aliased>>
  /\ loading' = FALSE
  /\ UNCHANGED <<subs, unsubscribeRef>>

\* fetchTasks resumes after its query (or returns its cached list) and the
\* awaiting hook code runs.
FetchSettle(i) ==
  /\ UNCHANGED gateVars
  /\ UNCHANGED filterVars
  /\ UNCHANGED convertVars
  /\ UNCHANGED updatingTask
  /\ calls[i].kind = "fetch"
  /\ calls[i].resp.type # "pending"
  /\ calls[i].resp.type = "cached" \/ Quiet
  /\ LET c == calls[i]
         r == FetchSettled(c.resp, tasksCache, lastCacheTime, now)
     IN /\ tasksCache' = r.cache
        /\ lastCacheTime' = r.cacheTime
        /\ IF c.op = "initial" THEN SetupContinuation(c, r)
           ELSE RefreshContinuation(r)
        /\ last' = StepOf(c.run,
                     Step("fetch", c.op, "", NoUpd,
                          IF c.resp.type = "cached" THEN "none" ELSE c.resp.type,
                          r.outcome, r.result))
  /\ calls' = RemoveAt(calls, i)
  /\ pre' = Before
  /\ UNCHANGED <<store, now, active, runs, ops>>

\* A listener's snapshot callback: map the documents, overwrite the cache,
\* and hand the list to the hook's callback.
PushDeliver(k) ==
  /\ UNCHANGED gateVars
  /\ UNCHANGED filterVars
  /\ UNCHANGED convertVars
  /\ UNCHANGED updatingTask
  /\ Quiet
  /\ subs[k].live
  /\ subs[k].queue # <<>>
  /\ LET got == MapDocs(Head(subs[k].queue), now)
     IN /\ tasksCache' = Some(got)
        /\ lastCacheTime' = now
        /\ tasks' = got
        /\ lastSync' = Some(now)
        /\ loading' = FALSE
        /\ aliased' = TRUE
        /\ last' = Step("push", "", "", NoUpd, "none", "none", got)
  /\ subs' = [subs EXCEPT ![k].queue = Tail(@)]
  /\ pre' = Before
  /\ UNCHANGED <<store, now, error, unsubscribeRef, active, runs, calls, ops>>

\* A listener's error callback: logs and forwards to the (absent) onError.
SubError(k) ==
  /\ UNCHANGED gateVars
  /\ UNCHANGED filterVars
  /\ UNCHANGED convertVars
  /\ UNCHANGED updatingTask
  /\ Quiet
  /\ subs[k].live
  /\ error' = SubscriptionErrorSeen(error)
  /\ last' = StepOf(subs[k].run,
                    Step("subError", "", "", NoUpd, "none", "none", <<>>))
  /\ pre' = Before
  /\ UNCHANGED <<store, now, tasksCache, lastCacheTime, tasks, loading,
                 lastSync, unsubscribeRef, aliased, active, runs, calls, subs,
                 ops>>

\* Inputs of the hook's updateTask.
UpdateInputs == {[findings |-> "found"]}

\* Statuses the hook's updateStatus is tried with: the one the first seeded
\* record already has and a different one (the layer never inspects them).
StatusInputs == {"completed", "blocked"}

\* Ids the mutations are tried on: the first seeded id and an unknown one.
MutIds == {SeedId(1), UnknownId}

\* The hook's updateStatus(id, s) / updateTask(id, updates) up to the awaited
\* write; the write's timestamp is taken here. updateStatus is called by
\* DashboardMain.handleStatusUpdate, which first records the id it updates.
MutStart(op, id, upd) ==
  /\ UNCHANGED gateVars
  /\ UNCHANGED filterVars
  /\ UNCHANGED convertVars
  /\ active
  /\ Quiet
  /\ ops < MaxOps
  /\ ops' = ops + 1
  /\ calls' = Append(calls, Call("mut", runs, op, id, upd, now, Pending))
  /\ updatingTask' = IF op = "updateStatus" THEN Some(id) ELSE updatingTask
  /\ last' = Step("call", op, id, upd, "issued", "none", <<>>)
  /\ pre' = Before
  /\ UNCHANGED <<store, now, tasksCache, lastCacheTime, tasks, loading,
                 lastSync, error, unsubscribeRef, aliased, active, runs, subs>>

\* The awaited write settles (updateDoc: the hook passes no merge option),
\* then the rest of updateTaskStatus / updateTask and of the hook's wrapper,
\* then handleStatusUpdate's finally, which clears the recorded id.
MutSettle(i) ==
  /\ UNCHANGED gateVars
  /\ UNCHANGED filterVars
  /\ UNCHANGED convertVars
  /\ Quiet
  /\ calls[i].kind = "mut"
  /\ \E netOk \in BOOLEAN :
       LET c == calls[i]
           w == RemoteWrite(store, c.id, c.upd, c.ts, TRUE, netOk)
           m == MutationSettled(w.ok, tasksCache, c.id, c.upd, now)
       IN /\ store' = w.store
          /\ subs' = IF w.ok THEN Notify(subs, w.store) ELSE subs
          /\ tasksCache' = m.cache
          /\ tasks' = IF aliased /\ IsSome(m.cache) THEN Val(m.cache) ELSE tasks
          /\ last' = Step("mut", c.op, c.id, c.upd,
                          IF w.ok THEN "ok" ELSE "err",
                          HookMutationOutcome(m.outcome), <<>>)
  /\ calls' = RemoveAt(calls, i)
  /\ updatingTask' = IF calls[i].op = "updateStatus" THEN None ELSE updatingTask
  /\ pre' = Before
  /\ UNCHANGED <<now, lastCacheTime, loading, lastSync, error, unsubscribeRef,
                 aliased, active, runs, ops>>

\* init(): the probe settles; an absent (or unreadable) collection while
\* still mounted starts initializeTasks, which probes again.
ProbeSettle(i) ==
  /\ UNCHANGED gateVars
  /\ UNCHANGED filterVars
  /\ UNCHANGED convertVars
  /\ UNCHANGED updatingTask
  /\ Quiet
  /\ calls[i].kind = "probe"
  /\ \E netOk \in BOOLEAN :
       calls' = IF ~checkTasksExist(store, netOk) /\ Mounted(calls[i].run)
                THEN [calls EXCEPT ![i].kind = "seedProbe"]
                ELSE RemoveAt(calls, i)
  /\ last' = StepOf(calls[i].run,
                    Step("probe", "init", "", NoUpd, "none", "none", <<>>))
  /\ pre' = Before
  /\ UNCHANGED <<store, now, tasksCache, lastCacheTime, tasks, loading,
                 lastSync, error, unsubscribeRef, aliased, active, runs, subs,
                 ops>>

\* initializeTasks(force = false): its own probe settles; it returns when
\* tasks exist, else builds the batch (timestamp taken now) and commits.
SeedProbeSettle(i) ==
  /\ UNCHANGED gateVars
  /\ UNCHANGED filterVars
  /\ UNCHANGED convertVars
  /\ UNCHANGED updatingTask
  /\ Quiet
  /\ calls[i].kind = "seedProbe"
  /\ \E netOk \in BOOLEAN :
       calls' = IF checkTasksExist(store, netOk)
                THEN RemoveAt(calls, i)
                ELSE [calls EXCEPT ![i].kind = "seedWrite", ![i].ts = now]
  /\ last' = StepOf(calls[i].run,
                    Step("seedProbe", "init", "", NoUpd, "none", "none", <<>>))
  /\ pre' = Before
  /\ UNCHANGED <<store, now, tasksCache, lastCacheTime, tasks, loading,
                 lastSync, error, unsubscribeRef, aliased, active, runs, subs,
                 ops>>

\* batch.commit() settles: on success the cache is invalidated; on failure
\* initializeTasks throws and init() sets the error if still mounted.
SeedWriteSettle(i) ==
  /\ UNCHANGED gateVars
  /\ UNCHANGED filterVars
  /\ UNCHANGED convertVars
  /\ UNCHANGED updatingTask
  /\ Quiet
  /\ calls[i].kind = "seedWrite"
  /\ \E netOk \in BOOLEAN :
       IF netOk
       THEN /\ store' = BatchSet(store, calls[i].ts)
            /\ subs' = Notify(subs, BatchSet(store, calls[i].ts))
            /\ tasksCache' = None
            /\ aliased' = FALSE
            /\ last' = StepOf(calls[i].run,
                              Step("seedWrite", "init", "", NoUpd, "ok", "resolved", <<>>))
            /\ UNCHANGED error
       ELSE /\ error' = InitCatch(Mounted(calls[i].run), error)
            /\ last' = StepOf(calls[i].run,
                              Step("seedWrite", "init", "", NoUpd, "err", "rejected", <<>>))
            /\ UNCHANGED <<store, subs, tasksCache, aliased>>
  /\ calls' = RemoveAt(calls, i)
  /\ pre' = Before
  /\ UNCHANGED <<now, lastCacheTime, tasks, loading, lastSync, unsubscribeRef,
                 active, runs, ops>>

\* Time passes.
Tick(d) ==
  /\ UNCHANGED gateVars
  /\ UNCHANGED filterVars
  /\ UNCHANGED convertVars
  /\ UNCHANGED updatingTask
  /\ Quiet
  /\ ops < MaxOps
  /\ ops' = ops + 1
  /\ now' = now + d
  /\ last' = Step("tick", "", "", NoUpd, "none", "none", <<>>)
  /\ pre' = Before
  /\ UNCHANGED <<store, tasksCache, lastCacheTime, tasks, loading, lastSync,
                 error, unsubscribeRef, aliased, active, runs, calls, subs>>

(* -------------------- the store client called directly ---------------- *)

\* Options of fetchTasks: useCache, and limit with 0 for "not given".
FetchOptions ==
  {[useCache |-> TRUE, limit |-> 0], [useCache |-> TRUE, limit |-> 1],
   [useCache |-> FALSE, limit |-> 0]}

\* Ids the client functions are called with: the first and the last seeded
\* record and one that does not exist.
ClientIds == {SeedId(1), SeedId(NumSeed), UnknownId}

\* Updates the client functions are called with.
ClientUpdates ==
  {[op |-> "updateStatus", upd |-> [status |-> "blocked"]],
   [op |-> "updateTask", upd |-> [findings |-> "found"]]}

\* Clock advances between client calls: the next millisecond.
ClientTickSteps == {1}

\* fetchTasks(options) up to its first await.
ClientFetch(opts) ==
  /\ UNCHANGED gateVars
  /\ UNCHANGED filterVars
  /\ UNCHANGED convertVars
  /\ Quiet
  /\ ops < MaxClientOps
  /\ ops' = ops + 1
  /\ LET fresh == CacheFresh(opts.useCache, tasksCache, lastCacheTime, now)
     IN /\ calls' = Append(calls,
                      Call("fetch", 0, "client", "", opts, now,
                           IF fresh
                           THEN [type |-> "cached",
                                 list |-> SliceLimit(Val(tasksCache), opts.limit)]
                           ELSE Pending))
        /\ last' = Step("call", "client", "", opts,
                        IF fresh THEN "none" ELSE "issued", "none", <<>>)
  /\ pre' = Before
  /\ UNCHANGED <<store, now, tasksCache, lastCacheTime, tasks, loading,
                 lastSync, error, unsubscribeRef, aliased, active, runs, subs,
                 updatingTask>>

\* The store answers the list query of a direct fetchTasks call.
ClientFetchServe(i) ==
  /\ UNCHANGED gateVars
  /\ UNCHANGED filterVars
  /\ UNCHANGED convertVars
  /\ Quiet
  /\ calls[i].kind = "fetch"
  /\ calls[i].op = "client"
  /\ calls[i].resp.type = "pending"
  /\ \E netOk \in BOOLEAN :
       calls' = [calls EXCEPT ![i].resp =
                   IF netOk
                   THEN [type |-> "ok",
                         list |-> ListQuery(store, calls[i].upd.limit)]
                   ELSE [type |-> "err", list |-> <<>>]]
  /\ last' = Step("serve", "client", "", calls[i].upd, "none", "none", <<>>)
  /\ pre' = Before
  /\ UNCHANGED <<store, now, tasksCache, lastCacheTime, tasks, loading,
                 lastSync, error, unsubscribeRef, aliased, active, runs, subs,
                 ops, updatingTask>>

\* A direct fetchTasks call resumes and returns or throws.
ClientFetchSettle(i) ==
  /\ UNCHANGED gateVars
  /\ UNCHANGED filterVars
  /\ UNCHANGED convertVars
  /\ calls[i].kind = "fetch"
  /\ calls[i].op = "client"
  /\ calls[i].resp.type # "pending"
  /\ calls[i].resp.type = "cached" \/ Quiet
  /\ LET c == calls[i]
         r == FetchSettled(c.resp, tasksCache, lastCacheTime, now)
     IN /\ tasksCache' = r.cache
        /\ lastCacheTime' = r.cacheTime
        /\ last' = Step("fetch", "client", "", c.upd,
                        IF c.resp.type = "cached" THEN "none" ELSE c.resp.type,
                        r.outcome, r.result)
  /\ calls' = RemoveAt(calls, i)
  /\ pre' = Before
  /\ UNCHANGED <<store, now, tasks, loading, lastSync, error, unsubscribeRef,
                 aliased, active, runs, subs, ops, updatingTask>>

\* updateTaskStatus(id, s) / updateTask(id, updates) up to the awaited write.
ClientUpdate(op, id, upd) ==
  /\ UNCHANGED gateVars
  /\ UNCHANGED filterVars
  /\ UNCHANGED convertVars
  /\ Quiet
  /\ ops < MaxClientOps
  /\ ops' = ops + 1
  /\ calls' = Append(calls, Call("mut", 0, op, id, upd, now, Pending))
  /\ last' = Step("call", op, id, upd, "issued", "none", <<>>)
  /\ pre' = Before
  /\ UNCHANGED <<store, now, tasksCache, lastCacheTime, tasks, loading,
                 lastSync, error, unsubscribeRef, aliased, active, runs, subs,
                 updatingTask>>

\* The awaited write of a direct call settles, then the cache is patched or
\* the error rethrown.
ClientUpdateSettle(i) ==
  /\ UNCHANGED gateVars
  /\ UNCHANGED filterVars
  /\ UNCHANGED convertVars
  /\ Quiet
  /\ calls[i].kind = "mut"
  /\ \E netOk \in BOOLEAN :
       LET c == calls[i]
           w == RemoteWrite(store, c.id, c.upd, c.ts, TRUE, netOk)
           m == MutationSettled(w.ok, tasksCache, c.id, c.upd, now)
       IN /\ store' = w.store
          /\ subs' = IF w.ok THEN Notify(subs, w.store) ELSE subs
          /\ tasksCache' = m.cache
          /\ last' = Step("mut", c.op, c.id, c.upd,
                          IF w.ok THEN "ok" ELSE "err", m.outcome, <<>>)
  /\ calls' = RemoveAt(calls, i)
  /\ pre' = Before
  /\ UNCHANGED <<now, lastCacheTime, tasks, loading, lastSync, error,
                 unsubscribeRef, aliased, active, runs, ops, updatingTask>>

\* deleteTask(id) up to the awaited delete.
ClientDelete(id) ==
  /\ UNCHANGED gateVars
  /\ UNCHANGED filterVars
  /\ UNCHANGED convertVars
  /\ Quiet
  /\ ops < MaxClientOps
  /\ ops' = ops + 1
  /\ calls' = Append(calls, Call("delete", 0, "deleteTask", id, NoUpd, now, Pending))
  /\ last' = Step("call", "deleteTask", id, NoUpd, "issued", "none", <<>>)
  /\ pre' = Before
  /\ UNCHANGED <<store, now, tasksCache, lastCacheTime, tasks, loading,
                 lastSync, error, unsubscribeRef, aliased, active, runs, subs,
                 updatingTask>>

\* The awaited delete settles, then the task is filtered out of the cache
\* or the error rethrown.
ClientDeleteSettle(i) ==
  /\ UNCHANGED gateVars
  /\ UNCHANGED filterVars
  /\ UNCHANGED convertVars
  /\ Quiet
  /\ calls[i].kind = "delete"
  /\ \E netOk \in BOOLEAN :
       LET c == calls[i]
           w == RemoteDelete(store, c.id, netOk)
           m == DeleteSettled(w.ok, tasksCache, c.id)
       IN /\ store' = w.store
          /\ subs' = IF w.ok THEN Notify(subs, w.store) ELSE subs
          /\ tasksCache' = m.cache
          /\ last' = Step("delete", c.op, c.id, NoUpd,
                          IF w.ok THEN "ok" ELSE "err", m.outcome, <<>>)
  /\ calls' = RemoveAt(calls, i)
  /\ pre' = Before
  /\ UNCHANGED <<now, lastCacheTime, tasks, loading, lastSync, error,
                 unsubscribeRef, aliased, active, runs, ops, updatingTask>>

\* clearCache()
ClientClearCache ==
  /\ UNCHANGED gateVars
  /\ UNCHANGED filterVars
  /\ UNCHANGED convertVars
  /\ Quiet
  /\ ops < MaxClientOps
  /\ ops' = ops + 1
  /\ tasksCache' = None
  /\ lastCacheTime' = 0
  /\ last' = Step("clearCache", "", "", NoUpd, "none", "none", <<>>)
  /\ pre' = Before
  /\ UNCHANGED <<store, now, tasks, loading, lastSync, error, unsubscribeRef,
                 aliased, active, runs, calls, subs, updatingTask>>

\* Time passes between client calls.
ClientTick(d) ==
  /\ UNCHANGED gateVars
  /\ UNCHANGED filterVars
  /\ UNCHANGED convertVars
  /\ Quiet
  /\ ops < MaxClientOps
  /\ ops' = ops + 1
  /\ now' = now + d
  /\ last' = Step("tick", "", "", NoUpd, "none", "none", <<>>)
  /\ pre' = Before
  /\ UNCHANGED <<store, tasksCache, lastCacheTime, tasks, loading, lastSync,
                 error, unsubscribeRef, aliased, active, runs, calls, subs,
                 updatingTask>>

Next ==
  \/ Activate
  \/ Deactivate
  \/ Refresh
  \/ \E i \in 1..Len(calls) : FetchServe(i)
  \/ \E i \in 1..Len(calls) : FetchSettle(i)
  \/ \E k \in 1..Len(subs) : PushDeliver(k)
  \/ \E k \in 1..Len(subs) : SubError(k)
  \/ \E id \in MutIds, s \in StatusInputs : MutStart("updateStatus", id, [status |-> s])
  \/ \E id \in MutIds, u \in UpdateInputs : MutStart("updateTask", id, u)
  \/ \E i \in 1..Len(calls) : MutSettle(i)
  \/ \E i \in 1..Len(calls) : ProbeSettle(i)
  \/ \E i \in 1..Len(calls) : SeedProbeSettle(i)
  \/ \E i \in 1..Len(calls) : SeedWriteSettle(i)
  \/ \E d \in TickSteps : Tick(d)

Spec == Init /\ [][Next]_vars

GateNext ==
  \/ \E p \in Candidates : Login(p)
  \/ Logout
  \/ \E sameTab \in BOOLEAN : Reload(sameTab)
  \/ LockoutExpire
  \/ \E d \in GateTickSteps : GateTick(d)

\* The access gate on its own.
SpecGate == Init /\ [][GateNext]_vars

GateLiveNext ==
  \/ GateNext
  \/ LockoutWait

\* The access gate with the passage of time: the clock reaches the due time
\* of a pending timeout, and a due timeout is run.
SpecGateLive ==
  /\ Init
  /\ [][GateLiveNext]_vars
  /\ WF_vars(LockoutWait)
  /\ WF_vars(LockoutExpire)

FilterNext ==
  \/ \E list \in FilterInputs : TasksChange(list)
  \/ \E q \in Queries : SetSearchQuery(q)
  \/ \E status \in FilterStatuses : SetFilterStatus(status)
  \/ ClearFilters
  \/ DebounceFire
  \/ \E d \in FilterTickSteps : FilterTick(d)

\* The filter hook on its own.
SpecFilter == Init /\ [][FilterNext]_vars

ClientNext ==
  \/ \E opts \in FetchOptions : ClientFetch(opts)
  \/ \E i \in 1..Len(calls) : ClientFetchServe(i)
  \/ \E i \in 1..Len(calls) : ClientFetchSettle(i)
  \/ \E id \in ClientIds, u \in ClientUpdates : ClientUpdate(u.op, id, u.upd)
  \/ \E i \in 1..Len(calls) : ClientUpdateSettle(i)
  \/ \E id \in ClientIds : ClientDelete(id)
  \/ \E i \in 1..Len(calls) : ClientDeleteSettle(i)
  \/ ClientClearCache
  \/ \E d \in ClientTickSteps : ClientTick(d)

ConvertNext ==
  \/ \E input \in ConvertInputs : Convert(input)
  \/ ConvertTick

\* convertTimestamp on its own.
SpecConvert == Init /\ [][ConvertNext]_vars

\* The store client and its cache, called without the hook.
SpecClient == Init /\ [][ClientNext]_vars

(* ------------------------------ claims -------------------------------- *)

\* Index of id in a cache value, 0 when the cache is empty or lacks it.
CachedIndex(cache, id) == IF IsSome(cache) THEN FindIndex(Val(cache), id) ELSE 0

\* Number of listeners still live.
LiveCount == Cardinality({k \in 1..Len(subs) : subs[k].live})

\* C1: when the list query of fetchTasks fails and a cached list exists, the
\* call returns that cached list, however old; it throws only when there is
\* no cached list.
C1_FetchFallsBackToCache ==
  (last.kind = "fetch" /\ last.query = "err") =>
    IF IsSome(pre.tasksCache)
    THEN last.outcome = "resolved" /\ last.result = Val(pre.tasksCache)
    ELSE last.outcome = "rejected"

\* C1 witness: a failed query answered with a non-empty cached list that is
\* older than the cache period.
C1_Witness ==
  /\ last.kind = "fetch"
  /\ last.query = "err"
  /\ last.outcome = "resolved"
  /\ IsSome(pre.tasksCache)
  /\ Len(last.result) > 0
  /\ now - lastCacheTime >= CACHE_DURATION

\* C2: updateStatus(id, s) on an id present in the cache, followed at once by
\* a cache read within the TTL, shows status s for that task.
C2_StatusVisibleAfterUpdate ==
  (/\ last.kind = "mut"
   /\ last.op = "updateStatus"
   /\ CachedIndex(pre.tasksCache, last.id) # 0
   /\ CacheFresh(TRUE, tasksCache, lastCacheTime, now))
  => SliceLimit(Val(tasksCache), 0)[CachedIndex(tasksCache, last.id)].status
       = last.upd.status

\* C3: when the remote write of updateStatus or updateTask fails, the patch
\* for that id is in the cache afterwards.
C3_PatchKeptOnFailure ==
  (/\ last.kind = "mut"
   /\ last.query = "err"
   /\ CachedIndex(pre.tasksCache, last.id) # 0)
  => /\ CachedIndex(tasksCache, last.id) # 0
     /\ \A f \in DOMAIN last.upd :
          Val(tasksCache)[CachedIndex(tasksCache, last.id)][f] = last.upd[f]

\* C4: a failed remote write behind the hook's updateStatus or updateTask is
\* always rethrown: the call never resolves when the write failed.
C4_WriteFailureRethrown ==
  (last.kind = "mut" /\ last.query = "err") => last.outcome = "rejected"

\* C4 witness: a write on an existing document failed and the call rejected.
C4_Witness ==
  /\ last.kind = "mut"
  /\ last.query = "err"
  /\ last.outcome = "rejected"
  /\ pre.store[last.id].exists

\* C5: updateStatus on an id missing from the store rejects, creates no
\* document and leaves the cached list as it was.
C5_UnknownIdRejected ==
  (/\ last.kind = "mut"
   /\ last.op = "updateStatus"
   /\ ~pre.store[last.id].exists)
  => /\ last.outcome = "rejected"
     /\ store = pre.store
     /\ tasksCache = pre.tasksCache

\* C5 witness: updateStatus on the unknown id settled while other documents
\* exist and a non-empty list is cached.
C5_Witness ==
  /\ last.kind = "mut"
  /\ last.op = "updateStatus"
  /\ last.id = UnknownId
  /\ last.outcome = "rejected"
  /\ \E i \in Ids : store[i].exists
  /\ IsSome(tasksCache)
  /\ Len(Val(tasksCache)) > 0

\* C6: refresh() always issues a list query, however fresh the cache, and it
\* neither opens nor closes a listener.
C6_RefreshAlwaysQueries ==
  /\ (last.kind = "call" /\ last.op = "refresh") => last.query = "issued"
  /\ (last.op = "refresh" /\ last.kind \in {"call", "fetch"}) => subs = pre.subs

\* C7: once the hook is deactivated, at whatever point of its activation, every
\* listener it opened has had its unsubscribe handle called exactly once and
\* none is live.
C7_DeactivationCancels ==
  ~active =>
    \A k \in 1..Len(subs) : ~subs[k].live /\ subs[k].unsubCalls = 1

\* C8: at most one listener opened by the hook is live, over any sequence of
\* activations and deactivations.
C8_AtMostOneLive == LiveCount <= 1

\* C9: when the initial fetch completes, with a result or with a throw, the
\* hook opens exactly one listener.
C9_ListenerAfterInitialFetch ==
  (last.kind = "fetch" /\ last.op = "initial") => Len(subs) = Len(pre.subs) + 1

\* C10: a push replaces the hook's list with the pushed snapshot, sets the
\* last-sync time, ends loading and clears the error.
C10_PushApplied ==
  last.kind = "push" =>
    /\ tasks = last.result
    /\ lastSync = Some(now)
    /\ loading = FALSE
    /\ error = NoError

\* C11: a listener error sets the hook's error flag and leaves the listener
\* live, so later pushes are still delivered.
C11_SubscriptionErrorFlagged ==
  last.kind = "subError" =>
    /\ error # NoError
    /\ subs = pre.subs

\* C12: on activation the seeding step (probe and, if needed, seed write) has
\* completed before the initial list fetch is issued, and a listener is opened
\* only by the settling initial fetch.
C12_SeedingBeforeFetch ==
  /\ \A i, j \in 1..Len(calls) :
       ~(/\ calls[i].kind \in {"probe", "seedProbe", "seedWrite"}
         /\ calls[j].kind = "fetch"
         /\ calls[j].op = "initial"
         /\ calls[j].run = calls[i].run)
  /\ Len(subs) # Len(pre.subs) => (last.kind = "fetch" /\ last.op = "initial")

\* C13: a seeding failure while the run is mounted sets the error, and the
\* initial fetch is performed all the same: when it returns, its list becomes
\* the hook's list and loading ends, whatever the error state.
C13_SeedFailureDoesNotBlock ==
  /\ (/\ last.kind = "seedWrite"
      /\ last.outcome = "rejected"
      /\ Mounted(last.run)) => error = ErrInit
  /\ (/\ last.kind = "fetch"
      /\ last.op = "initial"
      /\ last.outcome = "resolved") => (tasks = last.result /\ loading = FALSE)

\* C13 witness: the seeding of this run failed, the error is set, and the
\* initial fetch of the same run has delivered a non-empty list.
C13_Witness ==
  /\ last.kind = "fetch"
  /\ last.op = "initial"
  /\ last.outcome = "resolved"
  /\ last.run = runs
  /\ active
  /\ error = ErrInit
  /\ Len(tasks) > 0
  /\ tasks = last.result

\* C14: a call of initializeTasks (force = false) on a store that already
\* holds the seeded records writes nothing.
C14_SecondSeedWritesNothing ==
  (last.kind = "seedWrite" /\ last.outcome = "resolved") =>
    \A i \in SeedIds : ~pre.store[i].exists

\* C15: every status mutation still in flight is reported as updating: the
\* dashboard's per-id lookup (updatingTask === id) is true for its id.
C15_EachInFlightTracked ==
  \A i \in 1..Len(calls) :
    (calls[i].kind = "mut" /\ calls[i].op = "updateStatus")
      => updatingTask = Some(calls[i].id)

\* C16: while the hook stays deactivated, no settling call or push changes
\* its list, loading flag, last-sync time or error.
C16_NoUpdateAfterDeactivation ==
  [][(~active /\ ~active') => UNCHANGED <<tasks, loading, lastSync, error>>]_vars

\* The stored lockout entry names a time still ahead of t.
LockoutActive(entry, t) == IsSome(entry) /\ t < parseInt(Val(entry))

\* C17: from zero attempts and unlocked, the first and second wrong logins
\* do not lock and leave the stored lockout alone; the third one locks and
\* stores an expiry 5 minutes (300000 ms) after the time of the call.
C17_ThirdFailureLocks ==
  (/\ glast.kind = "login"
   /\ glast.input # TESTER_PASSWORD
   /\ ~gpre.gate.isLocked) =>
    /\ ~glast.result
    /\ attempts = gpre.gate.attempts + 1
    /\ gpre.gate.attempts < 2 =>
         (~isLocked /\ lockoutEnd = gpre.gate.lockoutEnd)
    /\ gpre.gate.attempts = 2 =>
         /\ isLocked
         /\ IsSome(lockoutEnd)
         /\ parseInt(Val(lockoutEnd)) = gpre.now + 300000

\* C17 witness: the third wrong login in a row has just locked the gate.
C17_Witness ==
  /\ glast.kind = "login"
  /\ glast.input # TESTER_PASSWORD
  /\ ~gpre.gate.isLocked
  /\ gpre.gate.attempts = 2
  /\ attempts = 3
  /\ isLocked
  /\ lockoutEnd = Some(DecString(now + 300000))

\* C18: a login on a locked gate, whatever the password, returns false and
\* changes neither the authentication nor the attempt counter.
C18_LockedLoginRefused ==
  (glast.kind = "login" /\ gpre.gate.isLocked) =>
    /\ ~glast.result
    /\ isAuthenticated = gpre.gate.isAuthenticated
    /\ sessionAuth = gpre.gate.sessionAuth
    /\ attempts = gpre.gate.attempts
    /\ isLocked

\* C18 witness: after three failures the right password was refused and the
\* counter is still 3.
C18_Witness ==
  /\ glast.kind = "login"
  /\ glast.input = TESTER_PASSWORD
  /\ gpre.gate.isLocked
  /\ gpre.gate.attempts = 3
  /\ attempts = 3
  /\ ~glast.result
  /\ ~isAuthenticated

\* C19: a login with the right password on an unlocked gate returns true,
\* authenticates, resets the counter and removes the stored lockout.
C19_CorrectLoginAuthenticates ==
  (/\ glast.kind = "login"
   /\ glast.input = TESTER_PASSWORD
   /\ ~gpre.gate.isLocked) =>
    /\ glast.result
    /\ isAuthenticated
    /\ sessionAuth
    /\ attempts = 0
    /\ lockoutEnd = None

\* C19 witness: the right password was accepted after a lockout had run out,
\* with failures counted and a lockout entry still stored before the call.
C19_Witness ==
  /\ glast.kind = "login"
  /\ glast.input = TESTER_PASSWORD
  /\ glast.result
  /\ ~gpre.gate.isLocked
  /\ gpre.gate.attempts > 0
  /\ IsSome(gpre.gate.lockoutEnd)
  /\ isAuthenticated
  /\ lockoutEnd = None

\* C20: while the stored lockout has not run out the gate is locked, also
\* after a page load, and every login in that time fails; a page load
\* authenticates exactly when the session entry is there and no lockout is
\* active.
C20_LockoutSurvivesReload ==
  /\ LockoutActive(lockoutEnd, now) => isLocked
  /\ (glast.kind = "login" /\ LockoutActive(gpre.gate.lockoutEnd, gpre.now))
       => ~glast.result
  /\ glast.kind = "reload" =>
       /\ mountLocked = LockoutActive(lockoutEnd, now)
       /\ isAuthenticated = (sessionAuth /\ ~LockoutActive(lockoutEnd, now))

\* C20 witness: the page was loaded during the lockout with a session entry
\* present; the gate came up locked and unauthenticated, and the right
\* password has just been refused.
C20_Witness ==
  /\ mountLocked
  /\ glast.kind = "login"
  /\ glast.input = TESTER_PASSWORD
  /\ ~glast.result
  /\ LockoutActive(lockoutEnd, now)
  /\ sessionAuth
  /\ ~isAuthenticated
  /\ isLocked

\* The positions of list whose task has the status asked for ("all" asks for
\* none in particular) and, when the text is not empty, holds the text in
\* its lower-cased title, module or one of its tags.
Matching(list, status, query) ==
  {k \in 1..Len(list) :
     /\ status = "all" \/ list[k].status = status
     /\ query # <<>> =>
          \/ includes(toLowerCase(list[k].title), query)
          \/ includes(toLowerCase(list[k].module), query)
          \/ \E tag \in {list[k].tags[t] : t \in 1..Len(list[k].tags)} :
               includes(toLowerCase(tag), query)}

\* out holds exactly the tasks of list at the positions K, in list order.
IsSelection(out, list, K) ==
  /\ Len(out) = Cardinality(K)
  /\ \A k \in K :
       out[Cardinality({j \in K : j <= k})] = list[k]

\* C21: filteredTasks is exactly the order-preserving subsequence of the
\* given list at the matching positions, for the status chosen and the text
\* applied (lower-cased and trimmed); with no match it is the empty list.
C21_FilterIsMatchingSubsequence ==
  /\ debouncedQuery = trim(toLowerCase(debouncedQuery))
  /\ IsSelection(filteredTasks, filterInput,
                 Matching(filterInput, filterStatus, debouncedQuery))
  /\ Matching(filterInput, filterStatus, debouncedQuery) = {}
       => filteredTasks = <<>>

\* C21 witness: a status and a typed text in upper case with a blank are
\* applied, and the result keeps the second and third of three tasks, one
\* found by its module, the other by a tag; the first has the text in its
\* title but another status.
C21_Witness ==
  /\ filterInput = <<SampleTask1, SampleTask2, SampleTask3>>
  /\ filterStatus = "pending"
  /\ searchQuery = <<"A", " ">>
  /\ debouncedQuery = <<"a">>
  /\ filteredTasks = <<SampleTask2, SampleTask3>>

\* C22: the applied text changes only when the debounce timeout fires, which
\* is 300 ms or more after the last change of the typed text, and it then
\* becomes the typed text lower-cased and trimmed; typing alone changes
\* neither the applied text nor the result; a status change shows in the
\* result in the same step.
C22_QueryDebouncedStatusImmediate ==
  /\ flast.kind = "debounce" =>
       /\ now >= queryChangedAt + 300
       /\ debouncedQuery = trim(toLowerCase(searchQuery))
  /\ flast.kind # "debounce" => debouncedQuery = fpre.debouncedQuery
  /\ flast.kind = "query" => filteredTasks = fpre.filteredTasks
  /\ flast.kind = "status" =>
       filteredTasks = ComputeFiltered(filterInput, filterStatus, debouncedQuery)

\* C22 witness: text typed within the first delay restarted it, and the
\* timeout has now applied that text, changing what was applied.
C22_Witness ==
  /\ flast.kind = "debounce"
  /\ queryChangedAt > Epoch
  /\ queryChangedAt < Epoch + 300
  /\ debouncedQuery # fpre.debouncedQuery
  /\ debouncedQuery = trim(toLowerCase(searchQuery))

\* The fields of a task or document that a list shows, without lastUpdated.
Shown(id, d) ==
  [id |-> id, day |-> d.day, status |-> d.status, findings |-> d.findings]

\* The store's current ordered contents, as shown fields.
StoreView ==
  LET docs == ListQuery(store, 0)
  IN [k \in 1..Len(docs) |-> Shown(docs[k].id, docs[k].data)]

\* A task list as shown fields.
ListView(list) == [k \in 1..Len(list) |-> Shown(list[k].id, list[k])]

\* C23: a successful updateTaskStatus / updateTask leaves the document with a
\* lastUpdated strictly later than it had, the written fields set and the
\* others as they were; the cached entry likewise, stamped with the current
\* time; and getTaskById then returns the written fields.
C23_StampStrictlyLater ==
  (last.kind = "mut" /\ last.query = "ok") =>
    LET old == pre.store[last.id]
        new == store[last.id]
        k == CachedIndex(tasksCache, last.id)
        got == getTaskById(store, last.id, now, TRUE)
    IN /\ new.lastUpdated.ms > old.lastUpdated.ms
       /\ new.day = old.day
       /\ new.status = (IF "status" \in DOMAIN last.upd
                        THEN last.upd.status ELSE old.status)
       /\ new.findings = (IF "findings" \in DOMAIN last.upd
                          THEN last.upd.findings ELSE old.findings)
       /\ k # 0 =>
            /\ Val(tasksCache)[k].lastUpdated = JsDate(now)
            /\ Val(tasksCache)[k].lastUpdated.ms
                 > Val(pre.tasksCache)[k].lastUpdated.ms
       /\ got.outcome = "resolved"
       /\ IsSome(got.result)
       /\ Shown(last.id, Val(got.result)) = Shown(last.id, new)

\* C24: convertTimestamp returns a date for every input, and "now" for an
\* input that is no timestamp, no date and has no toDate member; it never
\* throws and never returns null.
C24_AlwaysADate ==
  convLast.kind = "convert" =>
    /\ convLast.result.tag = "Date"
    /\ (convLast.input.tag \notin {"Timestamp", "Date", "Object"}
          \/ (convLast.input.tag = "Object" /\ convLast.input.toDate = "absent"))
         => convLast.result = JsDate(convLast.at)

\* C25: seeding an empty store leaves exactly the fixed records, and a list
\* query answered from a seeded store returns them by day ascending, days
\* 1..NumSeed, with the ids task_001.. in that order.
C25_SeededListOrdered ==
  /\ (/\ last.kind = "seedWrite"
      /\ last.outcome = "resolved"
      /\ pre.store = EmptyStore) =>
       /\ Len(StoreView) = NumSeed
       /\ \A k \in 1..NumSeed :
            /\ StoreView[k].id = SeedId(k)
            /\ StoreView[k].day = k
            /\ StoreView[k].status = SeedStatus(k)
  /\ (/\ last.kind = "fetch"
      /\ last.query = "ok"
      /\ last.result # <<>>) =>
       /\ Len(last.result) = NumSeed
       /\ \A k \in 1..NumSeed :
            last.result[k].id = SeedId(k) /\ last.result[k].day = k
       /\ \A j, k \in 1..NumSeed :
            j # k => last.result[j].id # last.result[k].id

\* C25 witness: the store was empty, the hook seeded it, and the initial
\* fetch answered afterwards has returned all fixed records, each carrying
\* the timestamp of the batch.
C25_Witness ==
  /\ last.kind = "fetch"
  /\ last.query = "ok"
  /\ Len(last.result) = NumSeed
  /\ \A k \in 1..NumSeed :
       /\ last.result[k].lastUpdated.ms >= Epoch
       /\ last.result[k].lastUpdated.ms = last.result[1].lastUpdated.ms
       /\ last.result[k].id = SeedId(k)

\* C26: a delivered push, and a refresh that returns, each leave the cache
\* and the hook's list holding the list they delivered, whatever was there
\* and however old the delivered list is.
C26_LastCompletedWins ==
  /\ last.kind = "push" =>
       (tasksCache = Some(last.result) /\ tasks = last.result)
  /\ (/\ last.kind = "fetch"
      /\ last.op = "refresh"
      /\ last.outcome = "resolved") =>
       (tasksCache = Some(last.result) /\ tasks = last.result)

\* C26 witness: a refresh answered before a mutation has completed after the
\* push of that mutation, and the cache and the list now hold the older
\* snapshot, which differs from the store.
C26_Witness ==
  /\ last.kind = "fetch"
  /\ last.op = "refresh"
  /\ last.query = "ok"
  /\ tasks = last.result
  /\ tasksCache = Some(last.result)
  /\ IsSome(pre.tasksCache)
  /\ Val(pre.tasksCache) # last.result
  /\ ListView(Val(pre.tasksCache)) = StoreView
  /\ ListView(tasks) # StoreView

\* C27: once nothing is in flight (no call pending, no snapshot undelivered)
\* the active hook's list shows the store's current ordered contents.
C27_QuiescentViewConsistent ==
  (/\ active
   /\ calls = <<>>
   /\ \A k \in 1..Len(subs) : subs[k].queue = <<>>) =>
    ListView(tasks) = StoreView

\* C28: a fetchTasks call with caching on is served from the cache exactly
\* when a cached list exists and less than 30000 ms have passed since the
\* cache time; it then returns the cached list and writes nothing. A query
\* that succeeds replaces the cache with its result and sets the cache time
\* to now; only such a query or a push moves the cache time.
C28_CacheServedWhileFresh ==
  /\ (last.kind = "activate" \/ (last.kind = "call" /\ last.op = "refresh")) =>
       LET c == calls[Len(calls)]
           fresh == IsSome(pre.tasksCache) /\ now - pre.lastCacheTime < 30000
       IN /\ c.kind = "fetch"
          /\ (c.resp.type = "cached") = fresh
          /\ (c.resp.type = "pending") = ~fresh
          /\ fresh => c.resp.list = Val(pre.tasksCache)
  /\ (last.kind = "fetch" /\ last.query = "none") =>
       /\ last.result = Val(pre.tasksCache)
       /\ tasksCache = pre.tasksCache
       /\ lastCacheTime = pre.lastCacheTime
  /\ (last.kind = "fetch" /\ last.query = "ok") =>
       /\ tasksCache = Some(last.result)
       /\ lastCacheTime = now
  /\ lastCacheTime # pre.lastCacheTime =>
       /\ last.kind = "push" \/ (last.kind = "fetch" /\ last.query = "ok")
       /\ lastCacheTime = now

\* C28 witness: a refresh has just been served the cached list, inside the
\* cache period.
C28_Witness ==
  /\ last.kind = "fetch"
  /\ last.op = "refresh"
  /\ last.query = "none"
  /\ IsSome(tasksCache)
  /\ last.result = Val(tasksCache)
  /\ Len(last.result) > 0
  /\ now - lastCacheTime < 30000

\* C29: the cache patch of a mutation leaves the cache time, the length and
\* the order of the cached list alone, changes no entry but the one with the
\* given id, and then only after a successful write; an id the cache lacks
\* adds nothing.
C29_PatchTouchesOneEntry ==
  last.kind = "mut" =>
    /\ lastCacheTime = pre.lastCacheTime
    /\ IsSome(tasksCache) = IsSome(pre.tasksCache)
    /\ IsSome(tasksCache) =>
         LET old == Val(pre.tasksCache)
             new == Val(tasksCache)
         IN /\ Len(new) = Len(old)
            /\ \A k \in 1..Len(old) :
                 /\ new[k].id = old[k].id
                 /\ new[k].day = old[k].day
                 /\ new[k] # old[k] =>
                      (old[k].id = last.id /\ last.query = "ok")
                 /\ (old[k].id = last.id /\ last.query = "ok") =>
                      /\ new[k].status = (IF "status" \in DOMAIN last.upd
                                          THEN last.upd.status
                                          ELSE old[k].status)
                      /\ new[k].findings = (IF "findings" \in DOMAIN last.upd
                                            THEN last.upd.findings
                                            ELSE old[k].findings)

\* C29 witness: a successful write has patched one of two cached entries and
\* left the other as it was.
C29_Witness ==
  /\ last.kind = "mut"
  /\ last.query = "ok"
  /\ IsSome(pre.tasksCache)
  /\ Len(Val(pre.tasksCache)) = NumSeed
  /\ CachedIndex(tasksCache, last.id) = NumSeed
  /\ Val(tasksCache)[NumSeed] # Val(pre.tasksCache)[NumSeed]
  /\ Val(tasksCache)[1] = Val(pre.tasksCache)[1]

HoldsAllOf(list, st) ==
  \A id \in Ids : st[id].exists => FindIndex(list, id) # 0

\* C31: the cache, when it holds a list, has an entry for every document of
\* the store (no record is ever created by the client functions, and a
\* removal leaves the cache first), and a fetchTasks call without a limit
\* returns an entry for each of them, whatever limits earlier calls passed.
C31_CacheNeverTruncated ==
  /\ IsSome(tasksCache) => HoldsAllOf(Val(tasksCache), store)
  /\ (/\ last.kind = "fetch"
      /\ last.op = "client"
      /\ last.outcome = "resolved"
      /\ last.upd.limit = 0) => HoldsAllOf(last.result, store)

\* C32: when the list query of the initial fetch has failed, the hook ends
\* with loading false and an error set, and its list is the cached list if
\* there was one.
C32_InitialFailureSetsError ==
  (last.kind = "fetch" /\ last.op = "initial" /\ last.query = "err") =>
    /\ loading = FALSE
    /\ error # NoError
    /\ IsSome(pre.tasksCache) => tasks = Val(pre.tasksCache)

\* C33: a committed batch of initializeTasks (force = false) leaves every
\* record that existed before it exactly as it was: it writes only into an
\* empty collection.
C33_SeedLeavesExistingRecords ==
  (last.kind = "seedWrite" /\ last.query = "ok") =>
    /\ pre.store = EmptyStore
    /\ \A i \in Ids : pre.store[i].exists => store[i] = pre.store[i]

\* C34: the attempt counter never exceeds MAX_ATTEMPTS.
C34_AttemptsBounded ==
  attempts <= MAX_ATTEMPTS

\* C35: the gate is never authenticated and locked at once.
C35_AuthenticatedOrLocked ==
  ~(isAuthenticated /\ isLocked)

\* C36: a locked gate is unlocked again: its unlock timeout is due exactly
\* when the stored 5-minute window ends, also after a page load during the
\* window, it does not run before that, and a login with the right password
\* on the gate unlocked by it succeeds.
C36_LockEventuallyOpens ==
  /\ isLocked ~> ~isLocked
  /\ [](isLocked =>
          /\ IsSome(lockoutTimer)
          /\ IsSome(lockoutEnd)
          /\ Val(lockoutTimer) = parseInt(Val(lockoutEnd)))
  /\ [](glast.kind = "expire" =>
          /\ ~isLocked
          /\ gpre.now >= parseInt(Val(gpre.gate.lockoutEnd)))
  /\ []((/\ glast.kind = "login"
         /\ glast.input = TESTER_PASSWORD
         /\ gpre.gate.attempts >= MAX_ATTEMPTS
         /\ ~gpre.gate.isLocked) => (glast.result /\ isAuthenticated))

\* C36 witness: a page load during the window restored the lock, the window
\* ended 5 minutes after the third failure, the timeout unlocked the gate
\* and the right password has just been accepted.
C36_Witness ==
  /\ mountLocked
  /\ glast.kind = "login"
  /\ glast.input = TESTER_PASSWORD
  /\ glast.result
  /\ gpre.gate.attempts = 0
  /\ IsSome(gpre.gate.lockoutEnd)
  /\ gpre.now >= parseInt(Val(gpre.gate.lockoutEnd))
  /\ ~gpre.gate.isLocked
  /\ isAuthenticated
  /\ ~isLocked

\* C37: right after clearFilters() the status filter is 'all', the typed text
\* is empty and filteredTasks is the whole list given to the hook.
C37_ClearShowsAllAtOnce ==
  flast.kind = "clear" =>
    /\ filterStatus = "all"
    /\ searchQuery = <<>>
    /\ filteredTasks = filterInput

\* C38: a fetchTasks call with limit n that returns, returns at most n
\* tasks, whether from the fresh cache, the query or the cache kept after a
\* failed query.
C38_LimitBoundsEveryPath ==
  (/\ last.kind = "fetch"
   /\ last.op = "client"
   /\ last.outcome = "resolved"
   /\ last.upd.limit # 0) => Len(last.result) <= last.upd.limit

\* C39: lastSync is never later than the last time a list was received from
\* the store (a successful query or a push, both of which stamp the cache):
\* a list served from the cache does not move it.
C39_LastSyncOnlyOnReceipt ==
  IsSome(lastSync) => Val(lastSync) <= lastCacheTime

====
